---- MODULE Spec2Model ----
(***************************************************************************)
(* Multi-source crawling and aggregation: the three source fetchers        *)
(* (src/crawlers/hn_crawler.py, reddit_crawler.py, rss_crawler.py), the    *)
(* shared filter (src/crawlers/base.py) and the topic orchestrator and     *)
(* multi-topic driver (src/topic_crawler.py).                              *)
(*                                                                         *)
(* Time is counted in ticks of 1/Scale second.  The clocks are kept        *)
(* relative (time since an event) and saturate at Horizon ticks.           *)
(***************************************************************************)
EXTENDS Integers, Sequences, FiniteSets, TLC

\* Python's None, and the value of a key a dict does not carry.
None == "None"

----------------------------------------------------------------------------
(* Bounds of the model *)

MaxTopics == 2
MaxSources == 2
MaxItems == 2
FetchItems == 3
MaxLatency == 4
MaxScore == 2
MaxCount == 2
Scale == 2
PoolItems == 11

(* Program constants *)

MAX_RETRIES == 3
BASE_DELAY == 5
RETRY_AFTER_FLOOR == 10
RETRY_AFTER_CAP == 60
RETRY_AFTER_FALLBACK == 30
BACKOFF_STEP == 10
REDDIT_LIMIT_CAP == 100
OVERFETCH == 3
HN_DEFAULT_COUNT == 30
REDDIT_DEFAULT_COUNT == 25
RSS_DEFAULT_COUNT == 20
DEFAULT_MAX_ARTICLES == 30
TOPIC_PAUSE == 3
ID_HASH_LEN == 12
MAX_WORKERS == 10

----------------------------------------------------------------------------
(* Python built-ins used by the code *)

Min(a, b) == IF a <= b THEN a ELSE b

Max(a, b) == IF a >= b THEN a ELSE b

\* dict.get(key, default)
Get(d, key, default) == IF key \in DOMAIN d THEN d[key] ELSE default

\* Truth value of a string-valued configuration value: None and "" are false.
Truthy(v) == v # None /\ v # ""

\* s[:n], also for a negative n
Prefix(s, n) ==
    LET m == IF n >= 0 THEN Min(n, Len(s)) ELSE Max(Len(s) + n, 0)
    IN  SubSeq(s, 1, m)

RECURSIVE Concat(_)
Concat(ss) == IF ss = <<>> THEN <<>> ELSE Head(ss) \o Concat(Tail(ss))

\* A mutant: a sort that is not stable, it puts the next element before the
\* elements of equal score.
InsertByScoreDescUnstable(sorted, a) ==
    LET ahead == {k \in 1..Len(sorted) : sorted[k].score > a.score}
        p == Cardinality(ahead)
    IN  SubSeq(sorted, 1, p) \o <<a>> \o SubSeq(sorted, p + 1, Len(sorted))

\* The places where list.sort(key = score, reverse = True) puts the next
\* element: behind every element whose score is at least as high (the sort
\* is stable, also with reverse = True).
InsertByScoreDesc(sorted, a) ==
    LET ahead == {k \in 1..Len(sorted) : sorted[k].score >= a.score}
        p == Cardinality(ahead)
    IN  SubSeq(sorted, 1, p) \o <<a>> \o SubSeq(sorted, p + 1, Len(sorted))

RECURSIVE SortFrom(_, _)
SortFrom(sorted, rest) ==
    IF rest = <<>> THEN sorted
    ELSE SortFrom(InsertByScoreDesc(sorted, Head(rest)), Tail(rest))

\* A mutant: the list is left in arrival order.
SortByScoreDescSkipped(s) == s

\* articles.sort(key=lambda a: a.score, reverse=True)
SortByScoreDesc(s) == SortFrom(<<>>, s)

\* A mutant: the limit keeps the end of the list.
TruncateFromEnd(s, n) == SubSeq(s, Len(s) - Min(Max(n, 0), Len(s)) + 1, Len(s))

\* A mutant: the limit is not applied.
TruncateSkipped(s, n) == s

\* articles[:n]
Truncate(s, n) == Prefix(s, n)

----------------------------------------------------------------------------
(* Titles and patterns are sequences of characters; a pattern is a literal.  *)
(* A pattern that is None and one that is the empty string are both the     *)
(* empty sequence: the code reads only their truth value.                   *)

NoPattern == <<>>

Lower(c) == CASE c = "A" -> "a" [] c = "B" -> "b" [] c = "C" -> "c" [] OTHER -> c

\* re.compile(pattern, re.IGNORECASE).search(title) for a literal pattern
Search(pattern, title) ==
    \E k \in 0..(Len(title) - Len(pattern)) :
        \A m \in 1..Len(pattern) : Lower(title[k + m]) = Lower(pattern[m])

\* BaseCrawler.filter_articles(articles, pattern)
filter_articles(articles, pattern) ==
    IF pattern = NoPattern THEN articles
    ELSE SelectSeq(articles, LAMBDA a : Search(pattern, a.title))

----------------------------------------------------------------------------
(* Article(id, title, score): the fields the crawl reads.  An id is the   *)
(* source prefix followed by the native id.                               *)

Article(prefix, native, title, score) ==
    [id |-> <<prefix>> \o native, title |-> title, score |-> score]

Returned(articles) == [outcome |-> "returned", articles |-> articles]

Raised(error) == [outcome |-> "raised", articles |-> <<>>, error |-> error]

----------------------------------------------------------------------------
(* HackerNewsCrawler *)

\* The answers of the item endpoint: a request error, a deleted item (null),
\* or an item of some type.
ItemError == [kind |-> "error"]

ItemNull == [kind |-> "null"]

Item(type, native, title, score) ==
    [kind |-> "item", type |-> type, id |-> native, title |-> title, score |-> score]

\* HackerNewsCrawler._fetch_story: the Article, or <<>> for None
fetch_story(resp) ==
    IF resp.kind = "error" THEN <<>>
    ELSE IF resp.kind = "null" \/ resp.type # "story" THEN <<>>
    ELSE <<Article("hn-", resp.id, resp.title, resp.score)>>

\* HackerNewsCrawler._fetch_story_ids on a listing that was received
fetch_story_ids(listing, limit) == Prefix(listing, limit)

\* A mutant: the list is returned before the last worker has completed.
fetch_stories_unjoined(arrival) ==
    Concat([k \in 1..(Len(arrival) - 1) |-> fetch_story(arrival[k])])

\* A mutant: a story that could not be fetched leaves a placeholder.
fetch_stories_placeholder(arrival) ==
    [k \in 1..Len(arrival) |->
        IF fetch_story(arrival[k]) = <<>>
        THEN Article("hn-", <<"null">>, <<>>, 0)
        ELSE fetch_story(arrival[k])[1]]

\* HackerNewsCrawler._fetch_stories_concurrent: arrival is the item answers
\* in the order as_completed yields them.
fetch_stories_concurrent(arrival) ==
    Concat([k \in 1..Len(arrival) |-> fetch_story(arrival[k])])

hn_has_filter(config) ==
    Get(config, "filter", NoPattern) # NoPattern
    \/ Get(config, "exclude", NoPattern) # NoPattern

hn_fetch_count(config) ==
    LET count == Get(config, "count", HN_DEFAULT_COUNT)
    IN  IF hn_has_filter(config) THEN count * OVERFETCH ELSE count

\* HackerNewsCrawler.fetch once the listing and the items have answered.
\* filter_articles takes (articles, pattern); the call passes a third
\* argument, which is a TypeError.
hn_fetch(config, listing_ok, arrival) ==
    IF ~listing_ok THEN Raised("HTTPError")
    ELSE IF hn_has_filter(config) THEN Raised("TypeError")
    ELSE Returned(Truncate(SortByScoreDesc(fetch_stories_concurrent(arrival)),
                           Get(config, "count", HN_DEFAULT_COUNT)))

----------------------------------------------------------------------------
(* RedditCrawler *)

\* RedditCrawler._parse_post
parse_post(post) == Article("reddit-", post.id, post.title, post.score)

parse_posts(children) == [k \in 1..Len(children) |-> parse_post(children[k])]

reddit_fetch_count(config) ==
    LET count == Get(config, "count", REDDIT_DEFAULT_COUNT)
    IN  IF Get(config, "filter", NoPattern) # NoPattern
        THEN Min(count * OVERFETCH, REDDIT_LIMIT_CAP)
        ELSE Min(count, REDDIT_LIMIT_CAP)

\* RedditCrawler.fetch after _fetch_posts has returned articles
reddit_fetch_return(config, articles) ==
    Truncate(filter_articles(articles, Get(config, "filter", NoPattern)),
             Get(config, "count", REDDIT_DEFAULT_COUNT))

----------------------------------------------------------------------------
(* RSSCrawler *)

\* hashlib.md5(x.encode()).hexdigest(): 32 characters that are a fixed function
\* of x, kept symbolic: a mark, x and a padding.  Different x of up to 10
\* characters differ in the first 12 characters.
Md5(x) ==
    LET body == <<"#">> \o x
    IN  SubSeq(body \o [k \in 1..(32 - Len(body)) |-> "0"], 1, 32)

\* A mutant: the title goes into the hash with the id or link.
parse_entry_with_title(entry) ==
    LET link == Get(entry, "link", <<>>)
        given == Get(entry, "id", link)
        title == Get(entry, "title", <<>>)
    IN  Article("rss-", Prefix(Md5(given \o title), ID_HASH_LEN),
                Get(entry, "title", <<"Untitled">>), 0)

\* RSSCrawler._parse_entry
parse_entry(entry) ==
    LET link == Get(entry, "link", <<>>)
        given == Get(entry, "id", link)
        entry_id == IF given = <<>> THEN Md5(Get(entry, "title", <<>>)) ELSE given
    IN  Article("rss-", Prefix(Md5(entry_id), ID_HASH_LEN),
                Get(entry, "title", <<"Untitled">>), 0)

parse_entries(entries) == [k \in 1..Len(entries) |-> parse_entry(entries[k])]

\* RSSCrawler.fetch after _fetch_feed has returned articles
rss_fetch_return(config, articles) ==
    Truncate(filter_articles(articles, Get(config, "filter", NoPattern)),
             Get(config, "count", RSS_DEFAULT_COUNT))

\* count = config.get('count', default), per fetcher
hn_count(config) == Get(config, "count", HN_DEFAULT_COUNT)

reddit_count(config) == Get(config, "count", REDDIT_DEFAULT_COUNT)

rss_count(config) == Get(config, "count", RSS_DEFAULT_COUNT)

----------------------------------------------------------------------------
(* The rate limiter of RedditCrawler *)

Horizon == (BASE_DELAY + 1) * Scale

Sat(t) == Min(t, Horizon)

\* random.uniform(0.5, 1.5), in ticks
Jitter == (Scale \div 2)..((3 * Scale) \div 2)

Digits == <<"0", "1", "2", "3", "4", "5", "6", "7", "8", "9">>

IsDigit(c) == \E d \in 1..Len(Digits) : Digits[d] = c

DigitValue(c) == (CHOOSE d \in 1..Len(Digits) : Digits[d] = c) - 1

RECURSIVE DigitsValue(_, _)
DigitsValue(s, acc) ==
    IF s = <<>> THEN acc ELSE DigitsValue(Tail(s), acc * 10 + DigitValue(Head(s)))

\* int(text): an optional sign and decimal digits, ValueError otherwise
int(text) ==
    LET signed == text # <<>> /\ Head(text) \in {"-", "+"}
        body == IF signed THEN Tail(text) ELSE text
        ok == body # <<>> /\ \A k \in 1..Len(body) : IsDigit(body[k])
    IN  IF ~ok THEN [ok |-> FALSE, value |-> 0]
        ELSE [ok |-> TRUE,
              value |-> IF signed /\ Head(text) = "-"
                        THEN 0 - DigitsValue(body, 0) ELSE DigitsValue(body, 0)]

\* A mutant: the server's hint is taken as it is.
wait_time_unclamped(headers) ==
    LET parsed == int(Get(headers, "RetryAfter", <<"6", "0">>))
    IN  IF parsed.ok THEN parsed.value ELSE RETRY_AFTER_FALLBACK

\* A mutant: a hint that does not parse is treated like a missing one.
wait_time_no_fallback(headers) ==
    LET parsed == int(Get(headers, "RetryAfter", <<"6", "0">>))
    IN  IF parsed.ok THEN Min(Max(parsed.value, RETRY_AFTER_FLOOR), RETRY_AFTER_CAP)
        ELSE RETRY_AFTER_CAP

\* The seconds RedditCrawler._fetch_posts sleeps on a 429 response
wait_time(headers) ==
    LET retry_after == Get(headers, "RetryAfter", <<"6", "0">>)
        parsed == int(retry_after)
        floored == IF parsed.ok THEN Max(parsed.value, RETRY_AFTER_FLOOR)
                   ELSE RETRY_AFTER_FALLBACK
    IN  Min(floored, RETRY_AFTER_CAP)

\* A mutant: the wait ends when the spacing has passed, without jitter.
wait_for_rate_limit_no_jitter(since, jitter) ==
    IF since < BASE_DELAY * Scale THEN BASE_DELAY * Scale - since ELSE 0

\* A mutant: no spacing between requests.
wait_for_rate_limit_skipped(since, jitter) == 0

\* RedditCrawler._wait_for_rate_limit: the ticks slept, given the ticks
\* since _last_request_time
wait_for_rate_limit(since, jitter) ==
    IF since < BASE_DELAY * Scale THEN BASE_DELAY * Scale - since + jitter ELSE 0

\* A mutant: a throttled attempt is not counted.
next_attempt_stuck(a) == a

\* for attempt in range(MAX_RETRIES): the next value of the loop variable
next_attempt(a) == a + 1

\* _fetch_posts on the status of the answer: 429 is taken by the test of
\* resp.status_code, raise_for_status raises HTTPError for the other statuses
\* from 400 on, and the rest is parsed.
on_status(status) ==
    IF status = 429 THEN "rate_limited"
    ELSE IF status >= 400 THEN "http_error"
    ELSE "parsed"

\* except requests.exceptions.HTTPError, status 429: the seconds slept on the
\* value a of the loop variable
http_error_backoff(a) == (a + 1) * BACKOFF_STEP

----------------------------------------------------------------------------
(* What the configuration and the remote sources can hold.  The item, post  *)
(* and entry numbered n has the native id "n" and the title TitleOf(n).     *)

Fa == <<"a">>

Fb == <<"b">>

TitleOf(n) == CASE n = 1 -> <<"A">> [] n = 2 -> <<"a", "B">> [] OTHER -> <<"c">>

NativeOf(n) == <<Digits[n + 1]>>

Scores == 0..MaxScore

Orders(n) == {f \in [1..n -> 1..n] : \A a, b \in 1..n : a # b => f[a] # f[b]}

\* The first n of the numbers 1..MaxItems, for every n
Listings == {[k \in 1..n |-> k] : n \in 0..MaxItems}

\* The source entries of the topics crawled in a run
SourceConfigs ==
    {[type |-> "hackernews"],
     [type |-> "hackernews", filter |-> Fa, exclude |-> Fb],
     [type |-> "reddit", subreddit |-> "rust"],
     [type |-> "reddit"],
     [type |-> "rss", url |-> "u"],
     [type |-> "rss", url |-> "v", name |-> "n"],
     [type |-> "rss"],
     [type |-> "twitter"],
     [type |-> None]}

SourceLists(most) == UNION {[1..n -> SourceConfigs] : n \in 0..most}

\* What get_topic can return: None, a topic without a name, a topic with at
\* most `most` sources.
TopicConfigs(most) ==
    {[kind |-> "None"], [kind |-> "topic", sources |-> <<>>]}
    \cup {[kind |-> "topic", name |-> "n", sources |-> ss] : ss \in SourceLists(most)}

Settings ==
    {[other |-> 0]} \cup {[max_articles_per_topic |-> m] : m \in 0..MaxItems}

\* The listing API in a run: story n has score MaxScore, and an item request
\* fails or answers with the story.
Story(n, sc) == Item("story", NativeOf(n), TitleOf(n), sc)

\* The item answers to the requests for ids, in every order of completion
RECURSIVE Answered(_, _)
Answered(ids, answers) ==
    IF ids = <<>> THEN {<<>>}
    ELSE {<<x>> \o rest : x \in answers[Head(ids)], rest \in Answered(Tail(ids), answers)}

\* The orders in which as_completed can yield the answers of the workers
Completions(answered) ==
    {[k \in 1..Len(answered) |-> answered[f[k]]] : f \in Orders(Len(answered))}

Arrivals(ids, answers) == UNION {Completions(a) : a \in Answered(ids, answers)}

RunAnswers(n) == {ItemError, Story(n, MaxScore)}

\* The forum in a run: post n has score n.
Post(n, sc) == [id |-> NativeOf(n), title |-> TitleOf(n), score |-> sc]

RunChildren(limit) ==
    {[k \in 1..Len(l) |-> Post(l[k], l[k])] : l \in {m \in Listings : Len(m) <= limit}}

\* The Retry-After header of a 429 answer: none, or a text
RetryAfterTexts ==
    {<<"5">>, <<"4", "5">>, <<"1", "2", "0">>, <<"-", "1">>, <<"s", "o", "o", "n">>, <<>>}

RetryAfterHeaders == {[other |-> <<>>]} \cup {[RetryAfter |-> v] : v \in RetryAfterTexts}

\* The entries of a feed
Entry(n) == [link |-> <<"l">> \o NativeOf(n), title |-> TitleOf(n)]

\* A feed with or without a title of its own
RunFeeds ==
    {[entries |-> [k \in 1..Len(l) |-> Entry(l[k])]] @@ t :
        l \in Listings, t \in {[other |-> 0], [title |-> "t"]}}

\* A request takes no time or MaxLatency ticks.
Latencies == {0, MaxLatency}

\* The status codes of the forum's answers
Statuses == {200, 403, 429, 500}

\* What the request of the forum fetcher can end in, besides an answer that
\* is parsed: an exception of the transport (timeout, connection error) or
\* an answer with a status
RequestErrors ==
    {[kind |-> "exception"]} \cup {[kind |-> "status", status |-> s] : s \in Statuses}

----------------------------------------------------------------------------
(* The state of one run of TopicCrawler.crawl_all_topics *)

VARIABLES
    settings,        \* the settings of the configuration
    topic_ids,       \* crawl_all_topics: the configured topic ids
    entries_left,    \* the source entries the topics not yet read may hold
    i,               \* crawl_all_topics: the place in topic_ids, from 1
    results,         \* crawl_all_topics: topic id -> Topic Result
    pc,              \* where the run is
    topic_config,    \* crawl_topic: the topic being crawled
    j,               \* crawl_topic: the place in the topic's sources, from 1
    all_articles,    \* crawl_topic: the articles collected
    crawlers,        \* TopicCrawler._crawlers: the source types with an instance
    subreddit,       \* RedditCrawler._subreddit
    elapsed,         \* ticks since RedditCrawler._last_request_time
    source_name,     \* RSSCrawler._source_name
    attempt,         \* RedditCrawler._fetch_posts: the loop variable
    log,             \* history: what each source of the topic did
    raised,          \* history: the topics whose crawl raised
    since_request,   \* history: <<ticks since the last forum request>>, or <<>>
    throttled,       \* history: the 429 answers to the forum fetch under way
    last_gap,        \* history: <<ticks between the request just sent and the one before>>
    slept,           \* history: the 429 answer just handled and the seconds slept on it
    paused,          \* history: the seconds crawl_all_topics has just slept
    fetch_call,      \* a single call of a crawler's fetch: its inputs and its result
    pool             \* a single call of _fetch_stories_concurrent: the executor,
                     \* its workers and the collecting thread

vars == <<settings, topic_ids, entries_left, i, results, pc, topic_config, j,
          all_articles, crawlers, subreddit, elapsed, source_name, attempt, log,
          raised, since_request, throttled, last_gap, slept, paused, fetch_call,
          pool>>

config_vars == <<settings, topic_ids, fetch_call, pool>>

reddit_vars == <<subreddit, attempt, throttled>>

NoTopic == [kind |-> "None"]

NoSleep == [seconds |-> 0]

NoCall == [crawler |-> None]

NoPool == [phase |-> None]

CRAWLER_MAP == {"hackernews", "reddit", "rss"}

Init ==
    /\ settings \in Settings
    /\ topic_ids \in {[k \in 1..n |-> k] : n \in 0..MaxTopics}
    /\ entries_left = MaxSources
    /\ i = 1
    /\ results = <<>>
    /\ pc = IF topic_ids = <<>> THEN "done" ELSE "loop"
    /\ topic_config = NoTopic
    /\ j = 1
    /\ all_articles = <<>>
    /\ crawlers = {}
    /\ subreddit = None
    /\ elapsed = Horizon
    /\ source_name = "RSS Feed"
    /\ attempt = 0
    /\ log = <<>>
    /\ raised = {}
    /\ since_request = <<>>
    /\ throttled = 0
    /\ last_gap = <<>>
    /\ slept = NoSleep
    /\ paused = 0
    /\ fetch_call = NoCall
    /\ pool = NoPool

\* d ticks pass
Pass(d) ==
    /\ elapsed' = Sat(elapsed + d)
    /\ since_request' = [k \in DOMAIN since_request |-> Sat(since_request[k] + d)]

\* A step that neither sends a forum request nor handles a 429 answer
Quiet == last_gap' = <<>> /\ slept' = NoSleep /\ paused' = 0

\* The source under way
source_config == topic_config.sources[j]

\* A mutant: the first topic that raises ends the run.
OnTopicExceptionAbort ==
    /\ raised' = raised \cup {topic_ids[i]}
    /\ pc' = "done"
    /\ UNCHANGED i

\* crawl_all_topics, except Exception: the loop goes on with the next topic
OnTopicException ==
    /\ raised' = raised \cup {topic_ids[i]}
    /\ i' = i + 1
    /\ pc' = IF i + 1 > Len(topic_ids) THEN "done" ELSE "loop"

\* crawl_topic raises before any source is crawled: the topic is unknown
\* (ValueError) or carries no name (KeyError).
CrawlTopicRaises ==
    /\ pc = "loop"
    /\ \E cfg \in TopicConfigs(0) : cfg.kind = "None" \/ "name" \notin DOMAIN cfg
    /\ OnTopicException
    /\ Quiet
    /\ UNCHANGED <<config_vars, entries_left, results, topic_config, j, all_articles,
                   crawlers, elapsed, source_name, log, since_request, reddit_vars>>

\* crawl_topic starts on the sources of a topic
CrawlTopic ==
    /\ pc = "loop"
    /\ \E cfg \in TopicConfigs(entries_left) :
        /\ cfg.kind # "None" /\ "name" \in DOMAIN cfg
        /\ topic_config' = cfg
        /\ entries_left' = entries_left - Len(cfg.sources)
    /\ j' = 1
    /\ all_articles' = <<>>
    /\ log' = <<>>
    /\ pc' = "sources"
    /\ Quiet
    /\ UNCHANGED <<config_vars, i, results, crawlers, elapsed, source_name,
                   raised, since_request, reddit_vars>>

LogEntry(outcome, articles, exhausted) ==
    [type |-> source_config.type, outcome |-> outcome, articles |-> articles,
     exhausted |-> exhausted]

\* A mutant: a source that raises ends the crawl of the topic's sources.
OnSourceExceptionBreak ==
    /\ log' = Append(log, LogEntry("raised", <<>>, FALSE))
    /\ j' = Len(topic_config.sources) + 1
    /\ pc' = "sources"
    /\ UNCHANGED all_articles

\* crawl_topic, except Exception: the source adds nothing
OnSourceException ==
    /\ log' = Append(log, LogEntry("raised", <<>>, FALSE))
    /\ j' = j + 1
    /\ pc' = "sources"
    /\ UNCHANGED all_articles

\* crawl_topic: all_articles.extend(articles)
OnSourceReturn(articles, exhausted) ==
    /\ log' = Append(log, LogEntry("returned", articles, exhausted))
    /\ all_articles' = all_articles \o articles
    /\ j' = j + 1
    /\ pc' = "sources"

\* crawl_topic: all_articles.extend(articles) for a listing source.  The log
\* notes beside the articles what the same fetch, with the same answers,
\* returns when the workers complete in the order of the listing.
OnListingReturn(articles, listed) ==
    /\ log' = Append(log, LogEntry("returned", articles, FALSE)
                          @@ [in_listing_order |-> listed])
    /\ all_articles' = all_articles \o articles
    /\ j' = j + 1
    /\ pc' = "sources"

AtSource == pc = "sources" /\ j <= Len(topic_config.sources)

\* A mutant: a failed request is tried again.
OnRequestFailedRetry ==
    /\ pc' = "wait"
    /\ UNCHANGED <<j, all_articles, log>>

\* _fetch_posts, except Exception: "Failed to fetch", return []; fetch then
\* filters and limits the empty list and returns it.  The log marks the entry.
OnRequestFailed ==
    /\ log' = Append(log, LogEntry("returned",
                                   reddit_fetch_return(source_config, <<>>), FALSE)
                          @@ [failed |-> TRUE])
    /\ all_articles' = all_articles \o reddit_fetch_return(source_config, <<>>)
    /\ j' = j + 1
    /\ pc' = "sources"

\* A mutant: the fetch raises once the retry ceiling is reached.
OnRetriesExhaustedRaise(exhausted) ==
    /\ log' = Append(log, LogEntry("raised", <<>>, exhausted))
    /\ j' = j + 1
    /\ pc' = "sources"
    /\ UNCHANGED all_articles

\* _fetch_posts after the last attempt: "Giving up", return []; fetch then
\* filters and limits the empty list and returns it.
OnRetriesExhausted(exhausted) ==
    OnSourceReturn(reddit_fetch_return(source_config, <<>>), exhausted)

\* A source entry without a type is passed over.
SkipSource ==
    /\ AtSource
    /\ ~Truthy(source_config.type)
    /\ log' = Append(log, LogEntry("skipped", <<>>, FALSE))
    /\ j' = j + 1
    /\ Quiet
    /\ UNCHANGED <<config_vars, entries_left, i, results, pc, topic_config,
                   all_articles, crawlers, elapsed, source_name, raised,
                   since_request, reddit_vars>>

\* _get_crawler raises ValueError for a type that CRAWLER_MAP does not hold.
UnknownSource ==
    /\ AtSource
    /\ Truthy(source_config.type)
    /\ source_config.type \notin CRAWLER_MAP
    /\ OnSourceException
    /\ Quiet
    /\ UNCHANGED <<config_vars, entries_left, i, results, topic_config, crawlers,
                   elapsed, source_name, raised, since_request, reddit_vars>>

\* A mutant: every source entry gets a crawler of its own.
crawler_is_new_always(type) == TRUE

\* _get_crawler: whether the call creates the instance for the type
crawler_is_new(type) == type \notin crawlers

\* HackerNewsCrawler.fetch: the listing request, the item requests of the
\* pool in an order of completion, then filter, sort and limit.
FetchHackerNews ==
    /\ AtSource
    /\ source_config.type = "hackernews"
    /\ crawlers' = crawlers \cup {"hackernews"}
    /\ \E listing_ok \in BOOLEAN, listing \in Listings, d \in Latencies :
        \E answered \in Answered(fetch_story_ids(listing, hn_fetch_count(source_config)),
                                 [n \in 1..MaxItems |-> RunAnswers(n)]) :
          \E arrival \in Completions(answered) :
            LET r == hn_fetch(source_config, listing_ok, arrival)
            IN  /\ Pass(d)
                /\ IF r.outcome = "returned"
                   THEN OnListingReturn(
                            r.articles,
                            hn_fetch(source_config, listing_ok, answered).articles)
                   ELSE OnSourceException
    /\ Quiet
    /\ UNCHANGED <<config_vars, entries_left, i, results, topic_config, source_name,
                   raised, reddit_vars>>

\* RSSCrawler.fetch raises ValueError for a source without url.
RSSMissingUrl ==
    /\ AtSource
    /\ source_config.type = "rss"
    /\ ~Truthy(Get(source_config, "url", None))
    /\ crawlers' = crawlers \cup {"rss"}
    /\ source_name' = IF crawler_is_new("rss") THEN "RSS Feed" ELSE source_name
    /\ OnSourceException
    /\ Quiet
    /\ UNCHANGED <<config_vars, entries_left, i, results, topic_config, elapsed,
                   raised, since_request, reddit_vars>>

\* RSSCrawler.fetch and _fetch_feed: a feed that cannot be fetched gives no
\* articles and leaves _source_name as it was.
FetchRSS ==
    /\ AtSource
    /\ source_config.type = "rss"
    /\ Truthy(Get(source_config, "url", None))
    /\ crawlers' = crawlers \cup {"rss"}
    /\ \E d \in Latencies, fetched \in BOOLEAN, feed \in RunFeeds :
        LET custom_name == Get(source_config, "name", None)
            before == IF crawler_is_new("rss") THEN "RSS Feed" ELSE source_name
            articles == IF fetched THEN parse_entries(feed.entries) ELSE <<>>
        IN  /\ Pass(d)
            /\ source_name' =
                  IF ~fetched THEN before
                  ELSE IF Truthy(custom_name) THEN custom_name
                  ELSE IF Truthy(Get(feed, "title", None)) THEN feed.title
                  ELSE source_config.url
            /\ OnSourceReturn(rss_fetch_return(source_config, articles), FALSE)
    /\ Quiet
    /\ UNCHANGED <<config_vars, entries_left, i, results, topic_config, raised,
                   reddit_vars>>

\* A mutant: the subreddit of the source is stored before it is checked.
RedditMissingSubredditStored ==
    /\ AtSource
    /\ source_config.type = "reddit"
    /\ ~Truthy(Get(source_config, "subreddit", None))
    /\ crawlers' = crawlers \cup {"reddit"}
    /\ subreddit' = Get(source_config, "subreddit", None)
    /\ elapsed' = IF crawler_is_new("reddit") THEN Horizon ELSE elapsed
    /\ OnSourceException
    /\ Quiet
    /\ UNCHANGED <<config_vars, entries_left, i, results, topic_config, source_name,
                   raised, since_request, attempt, throttled>>

\* RedditCrawler.fetch raises ValueError for a source without subreddit.
RedditMissingSubreddit ==
    /\ AtSource
    /\ source_config.type = "reddit"
    /\ ~Truthy(Get(source_config, "subreddit", None))
    /\ crawlers' = crawlers \cup {"reddit"}
    /\ subreddit' = IF crawler_is_new("reddit") THEN None ELSE subreddit
    /\ elapsed' = IF crawler_is_new("reddit") THEN Horizon ELSE elapsed
    /\ OnSourceException
    /\ Quiet
    /\ UNCHANGED <<config_vars, entries_left, i, results, topic_config, source_name,
                   raised, since_request, attempt, throttled>>

\* RedditCrawler.fetch up to the call of _fetch_posts
FetchReddit ==
    /\ AtSource
    /\ source_config.type = "reddit"
    /\ Truthy(Get(source_config, "subreddit", None))
    /\ crawlers' = crawlers \cup {"reddit"}
    /\ subreddit' = source_config.subreddit
    /\ elapsed' = IF crawler_is_new("reddit") THEN Horizon ELSE elapsed
    /\ attempt' = 0
    /\ throttled' = 0
    /\ pc' = "wait"
    /\ Quiet
    /\ UNCHANGED <<config_vars, entries_left, i, results, topic_config, j,
                   all_articles, source_name, log, raised, since_request>>

\* _fetch_posts, continue: the loop goes on with the next attempt; after the
\* last one it prints "Giving up" and returns [].
Continue ==
    /\ attempt' = next_attempt(attempt)
    /\ IF next_attempt(attempt) >= MAX_RETRIES
       THEN /\ OnRetriesExhausted(throttled + 1 >= MAX_RETRIES)
            /\ throttled' = 0
       ELSE /\ pc' = "wait"
            /\ throttled' = Min(throttled + 1, MAX_RETRIES)
            /\ UNCHANGED <<j, all_articles, log>>

\* _fetch_posts: _wait_for_rate_limit, the stamp of _last_request_time, and
\* the request goes out.
RedditRequest ==
    /\ pc = "wait"
    /\ \E jitter \in Jitter :
        LET w == wait_for_rate_limit(elapsed, jitter)
        IN  last_gap' = [k \in DOMAIN since_request |-> Sat(since_request[k] + w)]
    /\ elapsed' = 0
    /\ since_request' = <<0>>
    /\ slept' = NoSleep
    /\ paused' = 0
    /\ pc' = "request"
    /\ UNCHANGED <<config_vars, entries_left, i, results, topic_config, j,
                   all_articles, crawlers, source_name, log, raised, reddit_vars>>

\* _fetch_posts: the answer is 429.  The fetcher sleeps wait_time seconds and
\* goes on with the next attempt; after the last one it gives up and
\* returns [].
RedditRateLimited ==
    /\ pc = "request"
    /\ on_status(429) = "rate_limited"
    /\ \E headers \in RetryAfterHeaders, d \in Latencies :
        /\ slept' = [headers |-> headers, seconds |-> wait_time(headers)]
        /\ Pass(d + wait_time(headers) * Scale)
    /\ Continue
    /\ last_gap' = <<>>
    /\ paused' = 0
    /\ UNCHANGED <<config_vars, entries_left, i, results, topic_config, crawlers,
                   subreddit, source_name, raised>>

\* _fetch_posts: the answer is a listing
RedditSuccess ==
    /\ pc = "request"
    /\ on_status(200) = "parsed"
    /\ \E d \in Latencies, children \in RunChildren(reddit_fetch_count(source_config)) :
        /\ Pass(d)
        /\ OnSourceReturn(reddit_fetch_return(source_config, parse_posts(children)),
                          FALSE)
    /\ throttled' = 0
    /\ Quiet
    /\ UNCHANGED <<config_vars, entries_left, i, results, topic_config, crawlers,
                   source_name, raised, subreddit, attempt>>

\* _fetch_posts: the request fails (timeout, connection error), which
\* `except Exception` answers with [], or raise_for_status turns the status
\* of the answer into an HTTPError, which `except HTTPError` answers with a
\* sleep of http_error_backoff and the next attempt on the status 429 and
\* with [] on every other status.
RedditFailed ==
    /\ pc = "request"
    /\ \E d \in Latencies, error \in RequestErrors :
        /\ error.kind = "status" => on_status(error.status) = "http_error"
        /\ IF error.kind = "status" /\ error.status = 429
           THEN /\ slept' = [status |-> error.status,
                             seconds |-> http_error_backoff(attempt)]
                /\ Pass(d + http_error_backoff(attempt) * Scale)
                /\ Continue
           ELSE /\ slept' = NoSleep
                /\ Pass(d)
                /\ OnRequestFailed
                /\ throttled' = 0
                /\ UNCHANGED attempt
    /\ last_gap' = <<>>
    /\ paused' = 0
    /\ UNCHANGED <<config_vars, entries_left, i, results, topic_config, crawlers,
                   source_name, raised, subreddit>>

\* The Topic Result crawl_topic builds: the fields the claims read
TopicResult(articles) == [article_count |-> Len(articles), articles |-> articles]

max_articles == Get(settings, "max_articles_per_topic", DEFAULT_MAX_ARTICLES)

\* crawl_topic after the last source: sort, limit, return; crawl_all_topics
\* stores the result.
FinishTopic ==
    /\ pc = "sources"
    /\ j > Len(topic_config.sources)
    /\ results' = (topic_ids[i] :>
                     TopicResult(Truncate(SortByScoreDesc(all_articles), max_articles)))
                  @@ results
    /\ pc' = "returned"
    /\ Quiet
    /\ UNCHANGED <<config_vars, entries_left, i, topic_config, j, all_articles,
                   crawlers, elapsed, source_name, log, raised, since_request,
                   reddit_vars>>

\* crawl_all_topics: time.sleep(3) if i < len(topic_ids) - 1
inter_topic_pause == IF i < Len(topic_ids) THEN TOPIC_PAUSE ELSE 0

\* crawl_all_topics after crawl_topic has returned: the pause before the
\* next topic, if there is one.
AfterTopic ==
    /\ pc = "returned"
    /\ paused' = inter_topic_pause
    /\ Pass(inter_topic_pause * Scale)
    /\ i' = i + 1
    /\ pc' = IF i + 1 > Len(topic_ids) THEN "done" ELSE "loop"
    /\ topic_config' = NoTopic
    /\ j' = 1
    /\ all_articles' = <<>>
    /\ log' = <<>>
    /\ last_gap' = <<>>
    /\ slept' = NoSleep
    /\ UNCHANGED <<config_vars, entries_left, results, crawlers, source_name, raised,
                   reddit_vars>>

Next ==
    \/ CrawlTopicRaises
    \/ CrawlTopic
    \/ SkipSource
    \/ UnknownSource
    \/ FetchHackerNews
    \/ RSSMissingUrl
    \/ FetchRSS
    \/ RedditMissingSubreddit
    \/ FetchReddit
    \/ RedditRequest
    \/ RedditRateLimited
    \/ RedditSuccess
    \/ RedditFailed
    \/ FinishTopic
    \/ AfterTopic

Spec == Init /\ [][Next]_vars

----------------------------------------------------------------------------
(* Single calls of fetch, on every configuration of count, filter and       *)
(* exclude and on every answer of the source.                               *)

Counts == {[other |-> 0]} \cup {[count |-> c] : c \in 1..MaxCount}

Patterns ==
    {[other |-> 0], [filter |-> Fa], [exclude |-> Fb], [filter |-> Fa, exclude |-> Fb]}

\* The source entries of one type, with every count and pattern
FetchConfigs(base) == {base @@ c @@ f : c \in Counts, f \in Patterns}

FetchListings == {[k \in 1..n |-> k] : n \in 0..FetchItems}

FetchAnswers(n) ==
    {ItemError, ItemNull, Item("comment", NativeOf(n), TitleOf(n), 0)}
    \cup {Story(n, sc) : sc \in Scores}

FetchChildren(limit) ==
    UNION {{[k \in 1..Len(l) |-> Post(l[f[k]], sc[k])] :
               f \in Orders(Len(l)), sc \in [1..Len(l) -> Scores]}
           : l \in {m \in FetchListings : Len(m) <= limit}}

FetchFeeds ==
    UNION {{[entries |-> [k \in 1..Len(l) |-> Entry(l[f[k]])]] : f \in Orders(Len(l))}
           : l \in FetchListings}

\* No run of crawl_all_topics is under way.
NoRun ==
    /\ settings = [other |-> 0]
    /\ topic_ids = <<>>
    /\ entries_left = 0
    /\ i = 1
    /\ results = <<>>
    /\ pc = "done"
    /\ topic_config = NoTopic
    /\ j = 1
    /\ all_articles = <<>>
    /\ crawlers = {}
    /\ subreddit = None
    /\ elapsed = Horizon
    /\ source_name = "RSS Feed"
    /\ attempt = 0
    /\ log = <<>>
    /\ raised = {}
    /\ since_request = <<>>
    /\ throttled = 0
    /\ last_gap = <<>>
    /\ slept = NoSleep
    /\ paused = 0

FetchInit == NoRun /\ fetch_call = NoCall /\ pool = NoPool

run_vars == <<settings, topic_ids, entries_left, i, results, pc, topic_config, j,
              all_articles, crawlers, subreddit, elapsed, source_name, attempt, log,
              raised, since_request, throttled, last_gap, slept, paused>>

fetch_vars == <<run_vars, pool>>

\* HackerNewsCrawler.fetch(config), and beside it the same call with the same
\* answers when the workers complete in the order of the listing
CallHackerNews ==
    /\ fetch_call = NoCall
    /\ \E config \in FetchConfigs([type |-> "hackernews"]),
          listing_ok \in BOOLEAN, listing \in FetchListings :
        LET story_ids == fetch_story_ids(listing, hn_fetch_count(config))
        IN  \E answered \in Answered(story_ids,
                                     [n \in 1..FetchItems |-> FetchAnswers(n)]) :
              \E arrival \in Completions(answered) :
                fetch_call' = [crawler |-> "hackernews", config |-> config,
                               count |-> hn_count(config),
                               limit |-> hn_fetch_count(config),
                               listing_ok |-> listing_ok, story_ids |-> story_ids,
                               answered |-> answered, arrival |-> arrival,
                               result |-> hn_fetch(config, listing_ok, arrival),
                               in_listing_order |->
                                   hn_fetch(config, listing_ok, answered)]
    /\ UNCHANGED fetch_vars

\* RedditCrawler.fetch(config) when _fetch_posts gets a listing
CallReddit ==
    /\ fetch_call = NoCall
    /\ \E config \in FetchConfigs([type |-> "reddit", subreddit |-> "rust"]) :
        \E children \in FetchChildren(reddit_fetch_count(config)) :
            fetch_call' = [crawler |-> "reddit", config |-> config,
                           count |-> reddit_count(config),
                           limit |-> reddit_fetch_count(config),
                           reached |-> TRUE, children |-> children,
                           result |-> Returned(reddit_fetch_return(
                                         config, parse_posts(children)))]
    /\ UNCHANGED fetch_vars

\* RSSCrawler.fetch(config) when _fetch_feed gets a feed
CallRSS ==
    /\ fetch_call = NoCall
    /\ \E config \in FetchConfigs([type |-> "rss", url |-> "u"]), feed \in FetchFeeds :
        fetch_call' = [crawler |-> "rss", config |-> config,
                       count |-> rss_count(config), reached |-> TRUE, feed |-> feed,
                       result |-> Returned(rss_fetch_return(
                                     config, parse_entries(feed.entries)))]
    /\ UNCHANGED fetch_vars

\* RedditCrawler.fetch(config) when the request of _fetch_posts fails:
\* _fetch_posts returns []
CallRedditUnreachable ==
    /\ fetch_call = NoCall
    /\ \E config \in FetchConfigs([type |-> "reddit", subreddit |-> "rust"]) :
        fetch_call' = [crawler |-> "reddit", config |-> config,
                       count |-> reddit_count(config),
                       limit |-> reddit_fetch_count(config),
                       reached |-> FALSE, children |-> <<>>,
                       result |-> Returned(reddit_fetch_return(config, <<>>))]
    /\ UNCHANGED fetch_vars

\* RSSCrawler.fetch(config) when the request of _fetch_feed fails:
\* _fetch_feed returns []
CallRSSUnreachable ==
    /\ fetch_call = NoCall
    /\ \E config \in FetchConfigs([type |-> "rss", url |-> "u"]) :
        fetch_call' = [crawler |-> "rss", config |-> config,
                       count |-> rss_count(config), reached |-> FALSE,
                       feed |-> [entries |-> <<>>],
                       result |-> Returned(rss_fetch_return(config, <<>>))]
    /\ UNCHANGED fetch_vars

\* What a feed entry can carry: an id (guid), a link and a title, each or none
ParsedEntries ==
    {d @@ l @@ t :
        d \in {[other |-> 0], [id |-> <<>>], [id |-> <<"x">>], [id |-> <<"y">>]},
        l \in {[other |-> 0], [link |-> <<"x">>], [link |-> <<"l">>]},
        t \in {[other |-> 0], [title |-> <<"A">>], [title |-> <<"c">>]}}

\* RSSCrawler._parse_entry on two entries, as the loop of _fetch_feed calls it
CallParseEntry ==
    /\ fetch_call = NoCall
    /\ \E first \in ParsedEntries, second \in ParsedEntries :
        fetch_call' = [crawler |-> "rss_parse_entry",
                       entries |-> <<first, second>>,
                       result |-> Returned(parse_entries(<<first, second>>))]
    /\ UNCHANGED fetch_vars

FetchNext ==
    \/ CallHackerNews
    \/ CallReddit
    \/ CallRSS
    \/ CallRedditUnreachable
    \/ CallRSSUnreachable
    \/ CallParseEntry

FetchSpec == FetchInit /\ [][FetchNext]_vars

----------------------------------------------------------------------------
(* One call of HackerNewsCrawler._fetch_stories_concurrent, step by step:    *)
(* the collecting thread submits a work item for every id, the worker        *)
(* threads of the executor take the items from its queue in the order of     *)
(* submission and send the item requests, and the collecting thread takes    *)
(* the futures as they complete.  An id is named by its place in story_ids.  *)

\* The item of the id at place k: the second id cannot be fetched.
PoolAnswer(k) ==
    IF k = 2 THEN ItemError
    ELSE Item("story", <<Digits[(k \div 10) + 1], Digits[(k % 10) + 1]>>, <<>>, 0)

PoolInit ==
    /\ NoRun
    /\ fetch_call = NoCall
    /\ \E n \in 0..PoolItems :
        pool = [phase |-> "submit", story_ids |-> n, submitted |-> 0, threads |-> 0,
                taken |-> 0, running |-> {}, finished |-> {}, collected |-> {},
                requested |-> [k \in 1..n |-> 0], articles |-> {},
                appenders |-> {}]

\* executor.submit(self._fetch_story, sid), for the ids in the order of
\* story_ids: the work item is queued, and a worker thread is started
\* unless max_workers threads exist.
PoolSubmit ==
    /\ pool.phase = "submit"
    /\ pool.submitted < pool.story_ids
    /\ pool' = [pool EXCEPT !.submitted = @ + 1,
                            !.threads = Min(@ + 1, MAX_WORKERS)]
    /\ UNCHANGED <<run_vars, fetch_call>>

\* The dict of futures is built: as_completed starts.
PoolSubmitted ==
    /\ pool.phase = "submit"
    /\ pool.submitted = pool.story_ids
    /\ pool' = [pool EXCEPT !.phase = "collect"]
    /\ UNCHANGED <<run_vars, fetch_call>>

\* A mutant: a work item does not wait for a worker thread.
idle_worker_always(p) == TRUE

\* A worker thread that runs no work item exists.
idle_worker(p) == Cardinality(p.running) < p.threads

\* A worker thread takes the next work item from the queue and sends the
\* item request of _fetch_story.
PoolTake ==
    /\ pool.phase \in {"submit", "collect"}
    /\ pool.taken < pool.submitted
    /\ idle_worker(pool)
    /\ pool' = [pool EXCEPT !.taken = @ + 1,
                            !.running = @ \cup {pool.taken + 1},
                            !.requested[pool.taken + 1] = @ + 1]
    /\ UNCHANGED <<run_vars, fetch_call>>

\* The item request of a worker is answered or fails: _fetch_story returns,
\* the future is done and the thread is free for the next work item.
PoolAnswered ==
    /\ pool.phase \in {"submit", "collect"}
    /\ \E k \in pool.running :
        pool' = [pool EXCEPT !.running = @ \ {k}, !.finished = @ \cup {k}]
    /\ UNCHANGED <<run_vars, fetch_call>>

\* for future in as_completed(future_to_id): the collecting thread takes a
\* future that is done and appends its article, if it has one.
PoolCollect ==
    /\ pool.phase = "collect"
    /\ \E k \in pool.finished \ pool.collected :
        pool' = [pool EXCEPT
                    !.collected = @ \cup {k},
                    !.articles = IF fetch_story(PoolAnswer(k)) # <<>>
                                 THEN @ \cup {k} ELSE @,
                    !.appenders = IF fetch_story(PoolAnswer(k)) # <<>>
                                  THEN @ \cup {"collector"} ELSE @]
    /\ UNCHANGED <<run_vars, fetch_call>>

\* as_completed has yielded every future; the with block shuts the executor
\* down, which waits for its worker threads, and the list is returned.
PoolReturn ==
    /\ pool.phase = "collect"
    /\ Cardinality(pool.collected) = pool.story_ids
    /\ pool.running = {}
    /\ pool.taken = pool.submitted
    /\ pool' = [pool EXCEPT !.phase = "returned"]
    /\ UNCHANGED <<run_vars, fetch_call>>

PoolNext ==
    \/ PoolSubmit
    \/ PoolSubmitted
    \/ PoolTake
    \/ PoolAnswered
    \/ PoolCollect
    \/ PoolReturn

PoolSpec == PoolInit /\ [][PoolNext]_vars

----------------------------------------------------------------------------
(* Properties of the topic orchestrator *)

NonIncreasing(articles) ==
    \A a, b \in 1..Len(articles) : a < b => articles[a].score >= articles[b].score

\* The place list.sort gives s[k]: behind the higher scores and behind the
\* equal scores that came before it
PlaceOf(s, k) ==
    1 + Cardinality({m \in 1..Len(s) :
                        \/ s[m].score > s[k].score
                        \/ s[m].score = s[k].score /\ m < k})

\* r is s sorted by score, highest first, and cut to at most `most`
RankedAndCut(r, s, most) ==
    /\ Len(r) = Min(Len(s), most)
    /\ \A k \in 1..Len(s) : PlaceOf(s, k) <= most => r[PlaceOf(s, k)] = s[k]

\* The articles the sources of the log returned, in the order of the sources
ReturnedBySources ==
    Concat([k \in 1..Len(log) |->
               IF log[k].outcome = "returned" THEN log[k].articles ELSE <<>>])

\* The sources of the log that failed: raised, or returned nothing
FailedSources == {k \in 1..Len(log) : log[k].outcome = "raised"}

\* C1: the article list of every Topic Result crawl_topic returns is sorted
\* by score in non-increasing order, its length is at most the configured
\* max_articles_per_topic (30 when not configured), and article_count is
\* that length.
TopicResultSortedAndLimited ==
    \A t \in DOMAIN results :
        /\ NonIncreasing(results[t].articles)
        /\ Len(results[t].articles) <=
               (IF "max_articles_per_topic" \in DOMAIN settings
                THEN settings.max_articles_per_topic ELSE 30)
        /\ results[t].article_count = Len(results[t].articles)

\* A topic whose sources returned articles in an order that is not the order
\* of the scores, and more of them than the limit lets through
TopicResultSortedAndLimitedWitness ==
    /\ pc = "returned"
    /\ ~NonIncreasing(all_articles)
    /\ Len(results[topic_ids[i]].articles) >= 2
    /\ Len(results[topic_ids[i]].articles) < Len(all_articles)
    /\ results[topic_ids[i]].articles[1].score > results[topic_ids[i]].articles[2].score

\* C2: when crawl_topic returns, every source of the topic has been
\* attempted, in order, whatever the sources before it did; the Topic Result
\* holds exactly the articles the sources that did not raise returned,
\* concatenated, sorted by score and truncated; a source that raised added
\* nothing; with every source failing the list is empty.
FailingSourcesAddNothing ==
    pc = "returned" =>
        /\ Len(log) = Len(topic_config.sources)
        /\ \A k \in 1..Len(log) : log[k].type = topic_config.sources[k].type
        /\ \A k \in FailedSources : log[k].articles = <<>>
        /\ RankedAndCut(results[topic_ids[i]].articles, ReturnedBySources, max_articles)
        /\ (\A k \in 1..Len(log) : log[k].articles = <<>>)
               => results[topic_ids[i]].articles = <<>>

\* A topic whose first source raised and whose second source returned
\* articles, which are in the result
FailingSourcesAddNothingWitness ==
    /\ pc = "returned"
    /\ Len(log) = 2
    /\ log[1].outcome = "raised"
    /\ log[2].outcome = "returned"
    /\ Len(log[2].articles) = 2
    /\ Len(results[topic_ids[i]].articles) = 2

\* The sources of the log whose every attempt was answered 429
ThrottledSource == {k \in 1..Len(log) : log[k].exhausted}

\* C3: a forum fetch whose every attempt is answered 429 ends after
\* MAX_RETRIES = 3 attempts, returns the empty list and raises nothing; the
\* other sources of the topic are still fetched and their articles are in
\* the Topic Result.
ThrottledFetchReturnsEmpty ==
    /\ pc \in {"wait", "request"} => attempt = throttled /\ attempt < 3
    /\ \A k \in ThrottledSource :
          /\ log[k].type = "reddit"
          /\ log[k].outcome = "returned"
          /\ log[k].articles = <<>>
    /\ (pc = "returned" /\ ThrottledSource # {}) =>
          /\ Len(log) = Len(topic_config.sources)
          /\ \A k \in 1..Len(log) : \A m \in 1..Len(log[k].articles) :
                Len(ReturnedBySources) <= max_articles =>
                    \E n \in 1..Len(results[topic_ids[i]].articles) :
                        results[topic_ids[i]].articles[n] = log[k].articles[m]

\* A topic whose forum source was throttled on all three attempts and whose
\* next source returned articles, which are in the result
ThrottledFetchReturnsEmptyWitness ==
    /\ pc = "returned"
    /\ Len(log) = 2
    /\ log[1].exhausted
    /\ log[2].outcome = "returned"
    /\ log[2].articles # <<>>
    /\ Len(results[topic_ids[i]].articles) = Len(log[2].articles)

----------------------------------------------------------------------------
(* Properties of the rate limiter *)

\* C4: through one TopicCrawler, which keeps a single forum crawler for every
\* forum source of every topic, two consecutive requests to the forum are at
\* least BASE_DELAY = 5 seconds apart.
RequestsSpaced ==
    last_gap # <<>> => last_gap[1] >= 5 * Scale

\* A first attempt, not throttled, that had to wait: it leaves less than a
\* jitter more than the spacing behind the request before it, which was the
\* request of an earlier source
RequestsSpacedWitness ==
    /\ pc = "request"
    /\ attempt = 0
    /\ last_gap # <<>>
    /\ last_gap[1] < Horizon

\* The 429 answer just handled carries the hint `text`
HintIs(text) ==
    /\ "headers" \in DOMAIN slept
    /\ "RetryAfter" \in DOMAIN slept.headers
    /\ slept.headers.RetryAfter = text

HintAbsent ==
    /\ "headers" \in DOMAIN slept
    /\ "RetryAfter" \notin DOMAIN slept.headers

\* Hints that are integers, with the integer
IntegerHints ==
    {<<(<<"5">>), 5>>, <<(<<"4", "5">>), 45>>, <<(<<"1", "2", "0">>), 120>>,
     <<(<<"-", "1">>), 0 - 1>>}

\* Hints that are no integers
OtherHints == {<<"s", "o", "o", "n">>, <<>>}

\* C5: on a 429 answer with an integer hint h the fetcher sleeps
\* min(max(h, 10), 60) seconds: 10 and not 5 on the hint "5", and never more
\* than 60.
HintClamped ==
    /\ \A p \in IntegerHints :
          HintIs(p[1]) => slept.seconds = Min(Max(p[2], 10), 60)
    /\ HintIs(<<"5">>) => slept.seconds >= 10 /\ slept.seconds # 5
    /\ "headers" \in DOMAIN slept => slept.seconds <= 60

\* The hint "5" has been answered with a sleep, and the next attempt follows
HintClampedWitness ==
    /\ HintIs(<<"5">>)
    /\ slept.seconds = 10
    /\ pc = "wait"

\* C6, as the claim states it: on a 429 answer without a hint or with a hint
\* that does not parse, the fetcher sleeps 30 seconds.
FallbackWhenAbsentOrUnparseable ==
    (HintAbsent \/ \E text \in OtherHints : HintIs(text)) => slept.seconds = 30

\* C6, amended: on a 429 answer with a hint that does not parse, the fetcher
\* sleeps 30 seconds; without a hint it sleeps 60 seconds.
FallbackWhenUnparseable ==
    /\ (\E text \in OtherHints : HintIs(text)) => slept.seconds = 30
    /\ HintAbsent => slept.seconds = 60

\* A hint that does not parse has been answered with a sleep of 30 seconds
FallbackWhenUnparseableWitness ==
    /\ HintIs(<<"s", "o", "o", "n">>)
    /\ slept.seconds = 30
    /\ pc = "wait"

----------------------------------------------------------------------------
(* Properties of the multi-topic driver *)

TopicsBefore(n) == {topic_ids[k] : k \in 1..Min(n, Len(topic_ids))}

\* C9: a topic whose crawl raises does not stop the run: every topic before
\* the place of the loop has either raised or has its result in the map,
\* never both, and at the end the map holds exactly the topics that did not
\* raise.
TopicExceptionCaught ==
    /\ raised \cap DOMAIN results = {}
    /\ raised \cup DOMAIN results =
          TopicsBefore(IF pc = "returned" THEN i ELSE i - 1)
    /\ pc = "done" => DOMAIN results = TopicsBefore(Len(topic_ids)) \ raised

\* The first topic raised and the second was crawled
TopicExceptionCaughtWitness ==
    /\ pc = "done"
    /\ Len(topic_ids) = 2
    /\ raised = {topic_ids[1]}
    /\ DOMAIN results = {topic_ids[2]}

\* The steps a source entry can take: the call of fetch, and a wait and a
\* request for each attempt
StepsOfSource == 2 * MAX_RETRIES + 1

\* An upper bound of the steps the run has left
Rank ==
    LET topics_left == Max(Len(topic_ids) - i, 0)
        sources_left == IF pc \in {"sources", "wait", "request"}
                        THEN Len(topic_config.sources) - j ELSE 0
        here == CASE pc = "loop" -> 3
                  [] pc = "sources" -> 2 + StepsOfSource
                  [] pc = "wait" -> 2 + 2 * (MAX_RETRIES - attempt)
                  [] pc = "request" -> 1 + 2 * (MAX_RETRIES - attempt)
                  [] pc = "returned" -> 1
                  [] OTHER -> 0
    IN  3 * topics_left + StepsOfSource * (entries_left + sources_left) + here

\* C10: crawl_all_topics returns: as long as it has not, a step is possible,
\* and every step, whatever the sources answer, lowers a bound on the steps
\* left that is never negative.
RunCompletes ==
    /\ [](pc # "done" => ENABLED Next)
    /\ [](Rank >= 0)
    /\ [][Rank' < Rank]_vars

\* The last topic has returned after a forum source was given up on
RunCompletesWitness ==
    /\ pc = "returned"
    /\ i = Len(topic_ids)
    /\ i = 2
    /\ \E k \in 1..Len(log) : log[k].exhausted

----------------------------------------------------------------------------
(* Properties of a single call of fetch *)

HasBothPatterns(config) == "filter" \in DOMAIN config /\ "exclude" \in DOMAIN config

\* title holds the letters of pattern, in either case, at some place
Matches(pattern, title) ==
    \E k \in 0..(Len(title) - Len(pattern)) :
        \A m \in 1..Len(pattern) :
            \E c \in {<<"a", "A">>, <<"b", "B">>, <<"c", "C">>} :
                title[k + m] \in {c[1], c[2]} /\ pattern[m] \in {c[1], c[2]}

\* C7: for each of the three fetchers and every source configuration with
\* both filter and exclude, fetch returns a list of articles, every title in
\* it matches filter, case-insensitively, and none matches exclude.
FilterAndExcludeHonoured ==
    ("config" \in DOMAIN fetch_call /\ HasBothPatterns(fetch_call.config)) =>
        /\ fetch_call.result.outcome = "returned"
        /\ \A k \in 1..Len(fetch_call.result.articles) :
              /\ Matches(fetch_call.config.filter, fetch_call.result.articles[k].title)
              /\ ~Matches(fetch_call.config.exclude, fetch_call.result.articles[k].title)

\* The answers of the item endpoint that are no story
FailedItems(arrival) ==
    {k \in 1..Len(arrival) :
        \/ arrival[k].kind \in {"error", "null"}
        \/ arrival[k].kind = "item" /\ arrival[k].type # "story"}

\* A call of the listing fetcher for a source without filter and exclude,
\* whose listing request was answered
PlainListingCall ==
    /\ fetch_call.crawler = "hackernews"
    /\ fetch_call.listing_ok
    /\ "filter" \notin DOMAIN fetch_call.config
    /\ "exclude" \notin DOMAIN fetch_call.config

\* C8: when k of the n items the listing fetcher asks for fail on their own
\* (request error, deleted item, an item that is no story), fetch raises
\* nothing and returns the n - k stories that were fetched, each once,
\* sorted by score, highest first, with no placeholder for a failed item.
FailedItemsDropped ==
    PlainListingCall =>
        LET arrival == fetch_call.arrival
            articles == fetch_call.result.articles
            fetched == (1..Len(arrival)) \ FailedItems(arrival)
        IN  /\ Len(arrival) = Len(fetch_call.story_ids)
            /\ fetch_call.result.outcome = "returned"
            /\ Len(articles) = Len(arrival) - Cardinality(FailedItems(arrival))
            /\ NonIncreasing(articles)
            /\ \A k \in fetched : \E m \in 1..Len(articles) :
                  /\ articles[m].id = <<"hn-">> \o arrival[k].id
                  /\ articles[m].title = arrival[k].title
                  /\ articles[m].score = arrival[k].score
            /\ \A m \in 1..Len(articles) : \E k \in fetched :
                  articles[m].id = <<"hn-">> \o arrival[k].id

\* One of three items failed, and the two stories came in with the lower
\* score first
FailedItemsDroppedWitness ==
    /\ PlainListingCall
    /\ Len(fetch_call.arrival) = 3
    /\ Cardinality(FailedItems(fetch_call.arrival)) = 1
    /\ Len(fetch_call.result.articles) = 2
    /\ ~NonIncreasing(fetch_stories_concurrent(fetch_call.arrival))

----------------------------------------------------------------------------
(* Properties of the articles *)

\* C11: no two articles of a Topic Result have the same id, also when two
\* sources of the topic return the same native item.
TopicResultIdsUnique ==
    \A t \in DOMAIN results :
        \A a, b \in 1..Len(results[t].articles) :
            a # b => results[t].articles[a].id # results[t].articles[b].id

\* A call of fetch whose source could not be reached: the listing request of
\* the listing fetcher, the request of the forum fetcher, the request of the
\* feed fetcher failed
SourceUnreachable ==
    \/ "listing_ok" \in DOMAIN fetch_call /\ ~fetch_call.listing_ok
    \/ "reached" \in DOMAIN fetch_call /\ ~fetch_call.reached

\* C12: for each of the three fetchers, a fetch whose source cannot be
\* reached returns the empty list and raises nothing to its caller.
UnreachableSourceReturnsEmpty ==
    SourceUnreachable =>
        /\ fetch_call.result.outcome = "returned"
        /\ fetch_call.result.articles = <<>>

\* A call of fetch with a source configuration
IsFetch == "config" \in DOMAIN fetch_call

\* The count of the configuration, or the default of the fetcher
CountOf(call) ==
    IF "count" \in DOMAIN call.config THEN call.config.count
    ELSE CASE call.crawler = "hackernews" -> 30
           [] call.crawler = "reddit" -> 25
           [] call.crawler = "rss" -> 20

\* C13: each of the three fetchers asks its source for 3 x count raw items
\* when the configuration carries filter, exclude or both, and for count
\* items when it carries neither.
OverfetchWhenFiltering ==
    IsFetch =>
        /\ "limit" \in DOMAIN fetch_call
        /\ fetch_call.limit =
              IF "filter" \in DOMAIN fetch_call.config
                 \/ "exclude" \in DOMAIN fetch_call.config
              THEN 3 * CountOf(fetch_call) ELSE CountOf(fetch_call)

\* C14: the list fetch returns holds at most count articles, count being the
\* count of the configuration, or 30 for the listing fetcher, 25 for the
\* forum fetcher and 20 for the feed fetcher.
AtMostCountReturned ==
    (IsFetch /\ fetch_call.result.outcome = "returned") =>
        /\ fetch_call.count = CountOf(fetch_call)
        /\ Len(fetch_call.result.articles) <= CountOf(fetch_call)

\* A feed of more entries than count, of which count are returned
AtMostCountReturnedWitness ==
    /\ IsFetch
    /\ fetch_call.crawler = "rss"
    /\ fetch_call.reached
    /\ Len(fetch_call.feed.entries) > CountOf(fetch_call)
    /\ Len(fetch_call.result.articles) = CountOf(fetch_call)

----------------------------------------------------------------------------
(* Properties of the sources that lack their required configuration *)

\* The source under way is a forum source without subreddit or a feed source
\* without url
MissingRequiredConfig ==
    /\ AtSource
    /\ \/ source_config.type = "reddit" /\ "subreddit" \notin DOMAIN source_config
       \/ source_config.type = "rss" /\ "url" \notin DOMAIN source_config

\* C15: the fetch of a forum source without subreddit or of a feed source
\* without url raises at once: no request is sent, no time passes, the last
\* request time, the remembered subreddit and the remembered feed label stay
\* as they were, nothing is added to the articles, and the topic goes on with
\* its next source.
MissingConfigFailsAtOnce ==
    [][MissingRequiredConfig =>
          /\ Len(log') = Len(log) + 1
          /\ log'[Len(log')].outcome = "raised"
          /\ last_gap' = <<>>
          /\ since_request' = since_request
          /\ elapsed' = elapsed
          /\ subreddit' = subreddit
          /\ source_name' = source_name
          /\ all_articles' = all_articles
          /\ pc' = "sources"
          /\ j' = j + 1]_vars

\* A forum source without subreddit has raised after a forum source with one
\* had been fetched, and the crawler still remembers that subreddit
MissingConfigFailsAtOnceWitness ==
    /\ pc = "sources"
    /\ Len(log) = 2
    /\ log[1].type = "reddit"
    /\ log[1].outcome = "returned"
    /\ log[2].type = "reddit"
    /\ log[2].outcome = "raised"
    /\ subreddit = "rust"
    /\ since_request # <<>>

----------------------------------------------------------------------------
(* Properties of the feed fetcher's ids *)

\* What identifies a feed entry: its id if it carries one, else its link
NativeKey(entry) ==
    IF "id" \in DOMAIN entry THEN entry.id
    ELSE IF "link" \in DOMAIN entry THEN entry.link
    ELSE <<>>

TitleOfEntry(entry) == IF "title" \in DOMAIN entry THEN entry.title ELSE <<>>

\* C16: two parses of entries with the same id or link give the same Article
\* id, whatever else the entries carry; without id and link, two parses of
\* entries with the same title give the same Article id; every id is "rss-"
\* followed by 12 characters.
FeedIdDeterministic ==
    fetch_call.crawler = "rss_parse_entry" =>
        LET first == fetch_call.entries[1]
            second == fetch_call.entries[2]
            ids == [k \in 1..2 |-> fetch_call.result.articles[k].id]
        IN  /\ Len(fetch_call.result.articles) = 2
            /\ \A k \in 1..2 : Len(ids[k]) = 1 + 12 /\ ids[k][1] = "rss-"
            /\ (NativeKey(first) # <<>> /\ NativeKey(first) = NativeKey(second))
                  => ids[1] = ids[2]
            /\ (NativeKey(first) = <<>> /\ NativeKey(second) = <<>>
                /\ TitleOfEntry(first) = TitleOfEntry(second))
                  => ids[1] = ids[2]

\* Two entries with the same link and different titles, parsed to the same id
FeedIdDeterministicWitness ==
    /\ fetch_call.crawler = "rss_parse_entry"
    /\ NativeKey(fetch_call.entries[1]) = <<"x">>
    /\ NativeKey(fetch_call.entries[2]) = <<"x">>
    /\ TitleOfEntry(fetch_call.entries[1]) # TitleOfEntry(fetch_call.entries[2])
    /\ fetch_call.result.articles[1].id = fetch_call.result.articles[2].id

----------------------------------------------------------------------------
(* Properties of the pause between topics *)

\* C17: the topics are crawled one after another; whenever the driver leaves
\* a topic that is not the last one it has paused 3 seconds, whether the
\* topic returned or raised, and it does not pause after the last topic.
PauseBetweenTopics ==
    [][i' # i =>
          /\ i' = i + 1
          /\ paused' = (IF i < Len(topic_ids) THEN 3 ELSE 0)]_vars

----------------------------------------------------------------------------
(* Properties of one fetch call of the forum fetcher.  IDLE is pc =          *)
(* "sources", WAITING is pc = "wait", REQUESTING is pc = "request".          *)

\* The entry the step has just added to the log
Ended == log'[Len(log')]

\* C18: a fetch call of the forum fetcher goes from IDLE to WAITING, from
\* WAITING to REQUESTING, and from REQUESTING either back to WAITING, which
\* only a 429 answer below the ceiling does, or to its end, where it returns
\* a list and raises nothing: the empty list when the request failed or the
\* ceiling was reached.  It sends at most MAX_RETRIES = 3 requests.
FetchCallStateMachine ==
    /\ [](pc \in {"wait", "request"} => throttled < 3)
    /\ [][/\ pc' = "wait" =>
                \/ pc = "sources" /\ throttled' = 0
                \/ pc = "request" /\ "headers" \in DOMAIN slept'
                                  /\ throttled' = throttled + 1
          /\ pc' = "request" => pc = "wait"
          /\ pc = "wait" => pc' = "request" /\ throttled' = throttled
          /\ pc = "request" =>
                \/ pc' = "wait"
                \/ /\ pc' = "sources"
                   /\ Len(log') = Len(log) + 1
                   /\ Ended.outcome = "returned"
                   /\ ("failed" \in DOMAIN Ended \/ Ended.exhausted)
                         => Ended.articles = <<>>
                   /\ Ended.exhausted => "headers" \in DOMAIN slept'
                                         /\ throttled = 2]_vars

\* The third request of a fetch call is out
FetchCallStateMachineWitness ==
    /\ pc = "request"
    /\ throttled = 2
    /\ attempt = 2

\* C19: a request of the forum fetcher that fails with a transient network
\* error on an attempt below the ceiling is followed by another attempt of
\* the same fetch call; the call ends on a failed request, with no articles,
\* only on its last attempt.
TransientErrorRetried ==
    [][(pc = "request" /\ pc' = "sources" /\ "failed" \in DOMAIN Ended)
          => attempt = 3 - 1]_vars

----------------------------------------------------------------------------
(* Properties of the wait before a request *)

\* C20, as the claim states it: every request of the forum fetcher, retries
\* included, comes at least 5 seconds and a jitter of at least 0.5 seconds
\* after the request before it.
JitteredWaitBeforeEveryRequest ==
    last_gap # <<>> => last_gap[1] >= 5 * Scale + Scale \div 2

\* C20, amended: a request that would come less than 5 seconds after the
\* request before it is held back until 5 seconds and a jitter of 0.5 to 1.5
\* seconds lie between them; a request that comes 5 seconds or more after
\* the request before it, as every retry after a 429 answer does, is sent at
\* once, with no wait and no jitter.
JitteredWaitWhenTooEarly ==
    [][(pc = "wait" /\ pc' = "request" /\ since_request # <<>>) =>
          IF since_request[1] < 5 * Scale
          THEN \E jitter \in (Scale \div 2)..((3 * Scale) \div 2) :
                  last_gap' = <<Min(5 * Scale + jitter, Horizon)>>
          ELSE last_gap' = since_request]_vars

\* A request that was held back: it comes 5 seconds and the least jitter
\* after the request before it
JitteredWaitWhenTooEarlyWitness ==
    /\ pc = "request"
    /\ last_gap # <<>>
    /\ last_gap[1] > 5 * Scale
    /\ last_gap[1] < Horizon

----------------------------------------------------------------------------
(* Properties of the backoff of the forum fetcher *)

\* C21: a request of the forum fetcher that ends in an HTTP error of status
\* 429 is answered with a sleep of attempt number x 10 seconds (10, 20, 30
\* seconds on the attempts 1, 2, 3), and that sleep is what a 429 answer
\* without a hint gets.
LinearBackoffTaken ==
    /\ "status" \in DOMAIN slept => slept.seconds = attempt * 10
    /\ HintAbsent => slept.seconds = attempt * 10

----------------------------------------------------------------------------
(* Properties of the worker pool of the listing fetcher *)

SetOf(s) == {s[k] : k \in 1..Len(s)}

\* C22: whatever the order in which the workers of the listing fetcher
\* complete, fetch ends the same way, returns the same set of articles as
\* when they complete in the order of the listing, and returns them in
\* non-increasing order of score.
CompletionOrderIrrelevant ==
    fetch_call.crawler = "hackernews" =>
        /\ fetch_call.result.outcome = fetch_call.in_listing_order.outcome
        /\ SetOf(fetch_call.result.articles)
              = SetOf(fetch_call.in_listing_order.articles)
        /\ Len(fetch_call.result.articles)
              = Len(fetch_call.in_listing_order.articles)
        /\ NonIncreasing(fetch_call.result.articles)

\* Three stories that completed in another order than the listing's: the
\* same articles come back, two of equal score in the other order
CompletionOrderIrrelevantWitness ==
    /\ fetch_call.crawler = "hackernews"
    /\ fetch_call.result.outcome = "returned"
    /\ Len(fetch_call.result.articles) = 3
    /\ fetch_call.arrival # fetch_call.answered
    /\ fetch_call.result.articles # fetch_call.in_listing_order.articles
    /\ fetch_call.result.articles[1].score > fetch_call.result.articles[3].score

\* C23: in the concurrent phase of the listing fetcher at most 10 item
\* requests are in flight at any time, no id is requested more than once and
\* at the return every listed id has been requested exactly once, only the
\* collecting thread has appended to the result list, and the list is
\* returned only when every worker has completed and every future has been
\* collected.
PoolBoundedAndJoined ==
    pool.phase # None =>
        /\ Cardinality(pool.running) <= 10
        /\ \A k \in 1..pool.story_ids : pool.requested[k] <= 1
        /\ pool.appenders \subseteq {"collector"}
        /\ pool.phase = "returned" =>
              /\ \A k \in 1..pool.story_ids : pool.requested[k] = 1
              /\ pool.running = {}
              /\ pool.finished = 1..pool.story_ids
              /\ pool.collected = 1..pool.story_ids
              /\ pool.articles = {k \in 1..pool.story_ids : k # 2}

\* Ten item requests are in flight while an eleventh id waits in the queue
PoolBoundedAndJoinedWitness ==
    /\ pool.phase = "collect"
    /\ pool.story_ids = 11
    /\ Cardinality(pool.running) = 10
    /\ pool.taken = 10
    /\ pool.submitted = 11

----------------------------------------------------------------------------
(* Properties of the order of equal scores *)

WithScore(articles, v) == SelectSeq(articles, LAMBDA a : a.score = v)

\* C24: crawl_topic fetches the sources in the order of the configuration and
\* concatenates what they return in that order, and its sort is stable: the
\* articles of one score stand in the Topic Result in the order of the
\* concatenation, those of an earlier source first and those of one source
\* in the order the source returned them.
TopicSortStable ==
    pc = "returned" =>
        /\ \A k \in 1..Len(log) : log[k].type = topic_config.sources[k].type
        /\ all_articles = ReturnedBySources
        /\ \A v \in 0..MaxScore :
              LET kept == WithScore(results[topic_ids[i]].articles, v)
              IN  kept = SubSeq(WithScore(all_articles, v), 1, Len(kept))

\* The first source returned a lower score before a higher one, the second
\* source returned an article of the higher score: in the result the two of
\* equal score lead, the one of the first source first
TopicSortStableWitness ==
    /\ pc = "returned"
    /\ Len(log) = 2
    /\ Len(log[1].articles) = 2
    /\ Len(log[2].articles) = 1
    /\ log[1].articles[1].score < log[1].articles[2].score
    /\ log[2].articles[1].score = log[1].articles[2].score
    /\ log[2].articles[1].id # log[1].articles[2].id
    /\ Len(results[topic_ids[i]].articles) >= 2
    /\ results[topic_ids[i]].articles[1] = log[1].articles[2]
    /\ results[topic_ids[i]].articles[2] = log[2].articles[1]

----------------------------------------------------------------------------
(* Properties of source_name *)

\* The labels a feed source can show: its configured name, else the title
\* the feed declares, else its url
FeedLabels(config) ==
    IF "name" \in DOMAIN config THEN {config.name} ELSE {"t", config.url}

\* C25: when the fetch of a feed source has returned, also with the empty
\* list of a feed that could not be fetched, the crawler's source_name is the
\* label of that source: its configured name, else the feed's title, else
\* its url; when the fetch of a forum source has returned, the crawler shows
\* the subreddit of that source.  It is never the label an earlier call left.
SourceNameOfLastFetch ==
    [][/\ (AtSource /\ source_config.type = "rss" /\ pc' = "sources"
           /\ Len(log') = Len(log) + 1 /\ Ended.outcome = "returned")
             => source_name' \in FeedLabels(source_config)
       /\ (pc = "request" /\ pc' = "sources" /\ Ended.outcome = "returned")
             => subreddit' = source_config.subreddit]_vars

----------------------------------------------------------------------------
(* Properties of the Topic Result under the completion orders of the pool *)

\* What the sources of the log return when the workers of every listing
\* source complete in the order of the listing
ReturnedInListingOrder ==
    Concat([k \in 1..Len(log) |->
               IF "in_listing_order" \in DOMAIN log[k] THEN log[k].in_listing_order
               ELSE IF log[k].outcome = "returned" THEN log[k].articles
               ELSE <<>>])

\* C26: whatever the order in which the workers of the listing fetcher
\* complete, crawl_topic returns the list of article ids it returns when
\* they complete in the order of the listing, also when articles of equal
\* score stand where the list is cut.
TopicResultSameForEveryCompletionOrder ==
    pc = "returned" =>
        LET r == results[topic_ids[i]].articles
            s == ReturnedInListingOrder
        IN  /\ Len(r) = Min(Len(s), max_articles)
            /\ \A k \in 1..Len(s) :
                  PlaceOf(s, k) <= max_articles => r[PlaceOf(s, k)].id = s[k].id

----------------------------------------------------------------------------
(* Properties of the sleep after the last attempt *)

\* C27: the forum fetcher sleeps on a throttled attempt only when another
\* attempt follows the sleep: after the last attempt, attempt 3, has been
\* throttled, the fetch returns its empty list without a sleep.
SleepOnlyBeforeAnotherAttempt ==
    slept.seconds > 0 => pc = "wait" /\ attempt < 3

----------------------------------------------------------------------------
(* Properties of the cut of the Topic Result *)

IsFeedArticle(a) == a.id[1] = "rss-"

WithPositiveScore(articles) == {k \in 1..Len(articles) : articles[k].score > 0}

\* C28: the cut of crawl_topic drops no article whose score is higher than
\* the score of an article it keeps: of every score above that of a kept
\* article the Topic Result holds as many articles as were collected.  So a
\* feed article, whose score is 0, is in the Topic Result only if fewer
\* than max_articles_per_topic articles of positive score were collected.
CutDropsLowestScores ==
    pc = "returned" =>
        LET r == results[topic_ids[i]].articles
        IN  /\ \A m \in 1..Len(r) : \A v \in 0..MaxScore :
                  v > r[m].score =>
                      Len(WithScore(r, v)) = Len(WithScore(all_articles, v))
            /\ \A m \in 1..Len(r) :
                  IsFeedArticle(r[m]) =>
                      /\ r[m].score = 0
                      /\ Cardinality(WithPositiveScore(all_articles)) <
                            (IF "max_articles_per_topic" \in DOMAIN settings
                             THEN settings.max_articles_per_topic ELSE 30)

\* One article of positive score and two feed articles were collected and
\* the limit is 2: one feed article is in the result, the other was cut
CutDropsLowestScoresWitness ==
    /\ pc = "returned"
    /\ Len(all_articles) = 3
    /\ Cardinality(WithPositiveScore(all_articles)) = 1
    /\ IsFeedArticle(all_articles[1])
    /\ Len(results[topic_ids[i]].articles) = 2
    /\ results[topic_ids[i]].articles[1].score > 0
    /\ IsFeedArticle(results[topic_ids[i]].articles[2])

====
